---------------------------- MODULE Spec2Model ----------------------------
(***************************************************************************)
(* Model of the vector store of the document chat agent                    *)
(* (doc_chat_agent/app/services/vector_store.py): a FAISS IndexFlatL2 and  *)
(* a metadata list kept side by side, persisted as two files.              *)
(*                                                                         *)
(* An embedding vector is abstracted to [d |-> its length, x |-> a point   *)
(* on a line]; the index keeps its own dimension d and the points in       *)
(* insertion order.  The squared L2 distance of two vectors is (x - y)^2.  *)
(* Failures of the environment (the embedding backend, the file system,    *)
(* the language model) are inputs of the actions.                          *)
(*                                                                         *)
(* Spec is the store under every sequence of calls, crashes and restarts;  *)
(* ChatSpec is the chat service (chat_service.py, local_chat.py) over a    *)
(* store that holds documents; ApiSpec is the request handlers of          *)
(* api/endpoints.py on the event loop of the server; ServicesSpec is the   *)
(* first requests of a process, which build the services in get_services.  *)
(***************************************************************************)
EXTENDS Integers, Sequences, FiniteSets, TLC

VARIABLES
    embedding_type,  \* self.embedding_type: "local", "azure" or "none" (self.embeddings is None)
    dimension,       \* self.dimension
    index,           \* self.index: [d |-> dimension, vecs |-> the points, in insertion order]
    metadata,        \* self.metadata: the list of chunk records
    index_file,      \* faiss_index.bin: [st |-> "absent" | "ok" | "corrupt", data |-> an index]
    metadata_file,   \* metadata.pkl:    [st |-> "absent" | "ok" | "corrupt", data |-> a list]
    op,              \* the public call that returned last, or "crash": the process died
    ret,             \* how it returned: "None", "True", "False", "list", "dict" or "raised"
    removedDocs,     \* ids remove_document returned True for, not added again since, on this store
    saveFaults,      \* how many _save_index calls did not complete so far (an error or a crash)
    chat_service,    \* the chat service get_services built: "local" (LocalChatService),
                     \* "llm" (ChatService) or "unconfigured" (ChatService, self.llm None)
    conversations,   \* chat_service.conversations: conversation id -> list of turns
    reply,           \* the dictionary the last chat call returned
    registry,        \* document_processor.metadata: document id -> filename
    task,            \* the request handler the event loop is in the middle of, or NoTask
    services,        \* the globals document_processor, vector_store, chat_service of
                     \* endpoints.py: for each the number of instances constructed so
                     \* far, the last of them the one held (0: None); wraps: the
                     \* vector store instance the chat service was given
    requests         \* the requests in get_services: where each is and what it got

vars == <<embedding_type, dimension, index, metadata, index_file, metadata_file,
          op, ret, removedDocs, saveFaults,
          chat_service, conversations, reply, registry, task, services, requests>>

store == <<embedding_type, dimension, index, metadata>>
disk == <<index_file, metadata_file>>
chat == <<chat_service, conversations, reply>>
singletons == <<services, requests>>
api == <<registry, task, singletons>>

\* a process holds the store
Running == op # "crash"

---------------------------------------------------------------------------
(* Bounds of the model *)

\* the most records the list, and vectors the index, may hold
MaxChunks == 2
\* the most _save_index calls that may not complete in one run
MaxSaveFaults == 1

\* the documents uploaded: each document_id with the name of its file
Uploads == {[document_id |-> "d1", filename |-> "a.txt"],
            [document_id |-> "d2", filename |-> "b.pdf"]}
DocIds == {u.document_id : u \in Uploads}
Queries == {"q1", "q2"}

\* the chunk lists add_documents is called with
ChunkLists == {<<>>, <<"t1">>, <<"t2">>, <<"t1", "t2">>}

\* the add_documents calls made: an upload with the chunks its file was split into
AddCalls == {[chunks |-> <<>>, document_id |-> "d1", filename |-> "a.txt"],
             [chunks |-> <<"t1">>, document_id |-> "d1", filename |-> "a.txt"],
             [chunks |-> <<"t2">>, document_id |-> "d2", filename |-> "b.pdf"],
             [chunks |-> <<"t1", "t2">>, document_id |-> "d2", filename |-> "b.pdf"]}

\* the k similarity_search is called with: none, fewer than, as many as and more
\* than the index can hold
Ks == 0..(MaxChunks + 1)

\* the conversation ids clients send, and the ids uuid4 returns
ConvIds == {"c1"}
Uuids == {"u1"}

\* the most turns a conversation may hold while a chat is made on another one
MaxShortHistory == 2
\* the most stored turns that may differ from the usual ones: the first question
\* and an answer built from retrieved chunks
MaxUnusualTurns == 1

---------------------------------------------------------------------------
(* Program constants *)

LocalDimension == 384
AzureDimension == 1536
DefaultDimension == 384
\* chat(question, conversation_id, k = 5)
DefaultK == 5
\* the turns a conversation keeps, and the turns of it sent to the language model
HistoryCap == 20
RecentTurns == 6

---------------------------------------------------------------------------
(* Sequences *)

RECURSIVE SelectSeq2(_, _)
\* the subsequence of s at the positions not in drop, in order
SelectSeq2(s, drop) ==
    IF s = <<>> THEN <<>>
    ELSE LET n == Len(s)
             front == SelectSeq2(SubSeq(s, 1, n - 1), drop)
         IN IF n \in drop THEN front ELSE Append(front, s[n])

---------------------------------------------------------------------------
(* The embedding backend *)

\* the point a text is embedded at
Coord(text) ==
    CASE text = "t1" -> 1
      [] text = "t2" -> 3
      [] text = "q1" -> 2
      [] text = "q2" -> 4
      [] OTHER -> 0

\* embeddings.embed_documents(texts): one vector of the provider's length per text
embed_documents(texts) ==
    [i \in 1..Len(texts) |-> [d |-> dimension, x |-> Coord(texts[i])]]

\* embeddings.embed_query(text)
embed_query(text) == [d |-> dimension, x |-> Coord(text)]

---------------------------------------------------------------------------
(* The FAISS index *)

\* faiss.IndexFlatL2(d)
IndexFlatL2(d) == [d |-> d, vecs |-> <<>>]

\* index.ntotal
ntotal(ix) == Len(ix.vecs)

\* index.add(x) raises unless x is a non-empty n-by-d array with d = index.d
\* (np.array of an empty list has shape (0,), which does not unpack to n, d)
AddAccepts(ix, vectors) ==
    /\ vectors # <<>>
    /\ \A i \in 1..Len(vectors) : vectors[i].d = ix.d

\* index.add(x)
IndexAdd(ix, vectors) ==
    [ix EXCEPT !.vecs = @ \o [i \in 1..Len(vectors) |-> vectors[i].x]]


---------------------------------------------------------------------------
(* Persistence *)

NoIndex == [d |-> 0, vecs |-> <<>>]
Absent(data) == [st |-> "absent", data |-> data]
Corrupt(data) == [st |-> "corrupt", data |-> data]
Written(data) == [st |-> "ok", data |-> data]

\* what the file system can do to one _save_index:
\*   "ok"            both files written
\*   "index_open"    faiss.write_index raises before it touches the file
\*   "index_partial" faiss.write_index raises after truncating the file
\*   "meta_open"     the index is written, open(metadata_file, 'wb') raises
\*   "meta_partial"  the index is written, pickle.dump raises on a truncated file
SaveFaults == {"ok", "index_open", "index_partial", "meta_open", "meta_partial"}

\* _save_index: index file first, metadata file second; an exception is printed, not raised
save_index(ix, md, f) ==
    /\ f # "ok" => saveFaults < MaxSaveFaults
    /\ saveFaults' = IF f = "ok" THEN saveFaults ELSE saveFaults + 1
    /\ index_file' =
          CASE f \in {"ok", "meta_open", "meta_partial"} -> Written(ix)
            [] f = "index_partial" -> Corrupt(NoIndex)
            [] OTHER -> index_file
    /\ metadata_file' =
          CASE f = "ok" -> Written(md)
            [] f = "meta_partial" -> Corrupt(<<>>)
            [] OTHER -> metadata_file

\* where the death of the process can stop one _save_index:
\*   "index_partial"  inside faiss.write_index, the index file truncated
\*   "between"        after faiss.write_index, before open(metadata_file, 'wb')
\*   "meta_partial"   inside pickle.dump, the metadata file truncated
CrashPoints == {"index_partial", "between", "meta_partial"}

\* the process is gone: nothing of the store is left in memory until __init__ runs again
ProcessGone ==
    /\ embedding_type' = "none"
    /\ dimension' = DefaultDimension
    /\ index' = IndexFlatL2(DefaultDimension)
    /\ metadata' = <<>>
    /\ removedDocs' = {}
    /\ op' = "crash"
    /\ ret' = "crashed"

\* _save_index of ix and md cut short at point by the death of the process
crash_in_save(ix, md, point) ==
    /\ saveFaults < MaxSaveFaults
    /\ saveFaults' = saveFaults + 1
    /\ index_file' = IF point = "index_partial" THEN Corrupt(NoIndex) ELSE Written(ix)
    /\ metadata_file' = IF point = "meta_partial" THEN Corrupt(<<>>) ELSE metadata_file
    /\ ProcessGone

\* _create_new_index
create_new_index(dim) ==
    /\ index' = IndexFlatL2(dim)
    /\ metadata' = <<>>

\* _load_or_create_index whose except clause keeps what was loaded before the failure
load_or_create_index_KeepsLoaded(dim) ==
    IF index_file.st # "absent" /\ metadata_file.st # "absent"
    THEN IF index_file.st = "ok"
         THEN /\ index' = index_file.data
              /\ metadata' = IF metadata_file.st = "ok" THEN metadata_file.data ELSE <<>>
         ELSE create_new_index(dim)
    ELSE create_new_index(dim)

\* _load_or_create_index: both files exist and both load, or a new empty store
load_or_create_index(dim) ==
    IF index_file.st # "absent" /\ metadata_file.st # "absent"
    THEN IF index_file.st = "ok" /\ metadata_file.st = "ok"
         THEN /\ index' = index_file.data
              /\ metadata' = metadata_file.data
         ELSE create_new_index(dim)
    ELSE create_new_index(dim)

---------------------------------------------------------------------------
(* Construction *)

\* the selection with the remote provider tried first
SelectProvider_RemoteFirst(use_local_embeddings, localLoads, haveCredentials, probeOk) ==
    IF haveCredentials /\ probeOk THEN "azure"
    ELSE IF use_local_embeddings /\ localLoads THEN "local"
    ELSE "none"

\* the provider __init__ selects: local when asked for and the model loads, else
\* Azure when key and endpoint are set and the probe embedding succeeds, else none
SelectProvider(use_local_embeddings, localLoads, haveCredentials, probeOk) ==
    IF use_local_embeddings /\ localLoads THEN "local"
    ELSE IF haveCredentials /\ probeOk THEN "azure"
    ELSE "none"

\* self.dimension for the selected provider
ProviderDimension(type) ==
    CASE type = "local" -> LocalDimension
      [] type = "azure" -> AzureDimension
      [] OTHER -> DefaultDimension

\* self.conversations = {}
NoConversations == <<>>

\* no chat call has returned yet
NoReply == [answer |-> "", sources |-> <<>>, conversation_id |-> "", error |-> FALSE]

\* self.metadata = {} of the document processor
NoDocuments == <<>>

\* the event loop is between two request handlers and none has answered yet
NoTask == [handler |-> "none", document_id |-> "", at |-> "idle", status |-> ""]

\* the globals of endpoints.py, in the order get_services tests them
Globals == <<"document_processor", "vector_store", "chat_service">>

\* document_processor = None, vector_store = None, chat_service = None
NoServices == [document_processor |-> 0, vector_store |-> 0, chat_service |-> 0,
               wraps |-> 0]

\* the globals after the first get_services of the process
OneOfEach == [document_processor |-> 1, vector_store |-> 1, chat_service |-> 1,
              wraps |-> 1]

\* the requests that arrive while the services are not yet built
Requests == {"r1", "r2", "r3"}

\* a request that has not reached its handler
Waiting == [pc |-> "waiting", at |-> 1, got |-> <<>>]

\* the selections __init__ can make
Providers ==
    {SelectProvider(use_local_embeddings, localLoads, haveCredentials, probeOk) :
        use_local_embeddings \in BOOLEAN, localLoads \in BOOLEAN,
        haveCredentials \in BOOLEAN, probeOk \in BOOLEAN}

\* what a call that returned leaves for its caller to see
Returned(name, r) ==
    /\ op' = name
    /\ ret' = r

Init ==
    /\ embedding_type \in Providers
    /\ dimension = ProviderDimension(embedding_type)
    /\ index = IndexFlatL2(dimension)
    /\ metadata = <<>>
    /\ index_file = Absent(NoIndex)
    /\ metadata_file = Absent(<<>>)
    /\ op = "init"
    /\ ret = "None"
    /\ removedDocs = {}
    /\ saveFaults = 0
    /\ chat_service = "local"
    /\ conversations = NoConversations
    /\ reply = NoReply
    /\ registry = NoDocuments
    /\ task = NoTask
    /\ services = OneOfEach
    /\ requests = [r \in Requests |-> Waiting]

\* VectorStore() in a new process over the same storage directory, as get_services
\* calls it (use_local_embeddings is True).  localLoads: LocalEmbeddings() returns;
\* haveCredentials: the Azure key and endpoint are set; probeOk: the test embedding
\* returns
Restart(localLoads, haveCredentials, probeOk) ==
    /\ embedding_type' = SelectProvider(TRUE, localLoads, haveCredentials, probeOk)
    /\ dimension' = ProviderDimension(embedding_type')
    /\ load_or_create_index(dimension')
    /\ UNCHANGED <<disk, saveFaults>>
    /\ removedDocs' = {}
    /\ Returned("init", "None")

---------------------------------------------------------------------------
(* add_documents *)

RECURSIVE AppendChunks_SlotIsChunkIndex(_, _, _, _, _)
\* the loop of add_documents with vector_id the chunk's own index
AppendChunks_SlotIsChunkIndex(md, chunks, document_id, filename, i) ==
    IF i > Len(chunks) THEN md
    ELSE AppendChunks_SlotIsChunkIndex(
             Append(md, [document_id |-> document_id,
                         filename |-> filename,
                         chunk_index |-> i - 1,
                         text |-> chunks[i],
                         vector_id |-> i - 1]),
             chunks, document_id, filename, i + 1)

RECURSIVE AppendChunks(_, _, _, _, _)
\* the loop of add_documents from its i-th chunk on: one record per chunk, its
\* vector_id the length of the list at the moment it is appended
AppendChunks(md, chunks, document_id, filename, i) ==
    IF i > Len(chunks) THEN md
    ELSE AppendChunks(
             Append(md, [document_id |-> document_id,
                         filename |-> filename,
                         chunk_index |-> i - 1,
                         text |-> chunks[i],
                         vector_id |-> Len(md)]),
             chunks, document_id, filename, i + 1)

\* add_documents raises: nothing is assigned
AddRaises ==
    /\ UNCHANGED <<store, disk, removedDocs, saveFaults>>
    /\ Returned("add_documents", "raised")

\* add_documents from index.add on: the vectors, the records, the save
AddCommits(chunks, document_id, filename, saveFault) ==
    /\ index' = IndexAdd(index, embed_documents(chunks))
    /\ metadata' = AppendChunks(metadata, chunks, document_id, filename, 1)
    /\ save_index(index', metadata', saveFault)
    /\ UNCHANGED <<embedding_type, dimension>>
    /\ removedDocs' = removedDocs \ {document_id}
    /\ Returned("add_documents", "None")

\* add_documents raises with the records already appended
AddRaisesAfterAppend(chunks, document_id, filename) ==
    /\ metadata' = AppendChunks(metadata, chunks, document_id, filename, 1)
    /\ UNCHANGED <<embedding_type, dimension, index, disk, removedDocs, saveFaults>>
    /\ Returned("add_documents", "raised")

\* add_documents with the provider check after the loop over the chunks
AddDocuments_ChecksProviderLate(chunks, document_id, filename, embedOk, saveFault) ==
    /\ Running
    /\ Len(metadata) + Len(chunks) <= MaxChunks
    /\ ntotal(index) + Len(chunks) <= MaxChunks
    /\ IF embedding_type = "none"
       THEN embedOk /\ saveFault = "ok" /\ AddRaisesAfterAppend(chunks, document_id, filename)
       ELSE IF ~embedOk
       THEN saveFault = "ok" /\ AddRaises
       ELSE IF ~AddAccepts(index, embed_documents(chunks))
       THEN saveFault = "ok" /\ AddRaises
       ELSE AddCommits(chunks, document_id, filename, saveFault)

\* add_documents with the loop over the chunks before index.add
AddDocuments_AppendsBeforeIndexAdd(chunks, document_id, filename, embedOk, saveFault) ==
    /\ Running
    /\ Len(metadata) + Len(chunks) <= MaxChunks
    /\ ntotal(index) + Len(chunks) <= MaxChunks
    /\ IF embedding_type = "none"
       THEN embedOk /\ saveFault = "ok" /\ AddRaises
       ELSE IF ~embedOk
       THEN saveFault = "ok" /\ AddRaises
       ELSE IF ~AddAccepts(index, embed_documents(chunks))
       THEN saveFault = "ok" /\ AddRaisesAfterAppend(chunks, document_id, filename)
       ELSE AddCommits(chunks, document_id, filename, saveFault)

\* add_documents(chunks, document_id, filename).  embedOk: embed_documents returns;
\* saveFault: what the file system does to the save.  An input the path taken does
\* not read is fixed, so that each outcome is one step.
AddDocuments(chunks, document_id, filename, embedOk, saveFault) ==
    /\ Running
    /\ Len(metadata) + Len(chunks) <= MaxChunks
    /\ ntotal(index) + Len(chunks) <= MaxChunks
    /\ IF embedding_type = "none"
       THEN embedOk /\ saveFault = "ok" /\ AddRaises
       ELSE IF ~embedOk
       THEN saveFault = "ok" /\ AddRaises
       ELSE IF ~AddAccepts(index, embed_documents(chunks))
       THEN saveFault = "ok" /\ AddRaises
       ELSE AddCommits(chunks, document_id, filename, saveFault)

\* add_documents reaches _save_index and the process dies in it
AddDocumentsCrashes(chunks, document_id, filename, point) ==
    /\ Running
    /\ Len(metadata) + Len(chunks) <= MaxChunks
    /\ ntotal(index) + Len(chunks) <= MaxChunks
    /\ embedding_type # "none"
    /\ AddAccepts(index, embed_documents(chunks))
    /\ crash_in_save(IndexAdd(index, embed_documents(chunks)),
                     AppendChunks(metadata, chunks, document_id, filename, 1),
                     point)

---------------------------------------------------------------------------
(* remove_document *)

\* indices_to_remove with a loop that stops at the first match
IndicesToRemove_FirstOnly(md, document_id) ==
    {i \in 1..Len(md) :
        /\ md[i].document_id = document_id
        /\ \A j \in 1..(i - 1) : md[j].document_id # document_id}

\* indices_to_remove, as positions 1..Len(md)
IndicesToRemove(md, document_id) ==
    {i \in 1..Len(md) : md[i].document_id = document_id}

\* the loop that sets every record's vector_id to its position
Renumber(md) == [i \in 1..Len(md) |-> [md[i] EXCEPT !.vector_id = i - 1]]

\* the texts of the records, in list order
TextsOf(md) == [i \in 1..Len(md) |-> md[i].text]

\* whether remove_document(document_id) embeds the surviving texts and that raises
\* (embed_documents raises, or self.embeddings is None)
ReembedFails(document_id, embedOk) ==
    /\ IndicesToRemove(metadata, document_id) # {}
    /\ SelectSeq2(metadata, IndicesToRemove(metadata, document_id)) # <<>>
    /\ (embedding_type = "none" \/ ~embedOk)

\* remove_document from the deletion of the records on
RemoveRebuilds(document_id, embedOk, saveFault) ==
    LET remaining == SelectSeq2(metadata, IndicesToRemove(metadata, document_id))
    IN IF remaining # <<>> /\ (embedding_type = "none" \/ ~embedOk)
       \* the records are deleted already when embed_documents raises; the except
       \* clause prints the error and returns False
       THEN /\ saveFault = "ok"
            /\ embedding_type = "none" => embedOk
            /\ metadata' = remaining
            /\ UNCHANGED <<embedding_type, dimension, index, disk, removedDocs, saveFaults>>
            /\ Returned("remove_document", "False")
       ELSE /\ remaining = <<>> => embedOk
            /\ index' = IF remaining # <<>>
                        THEN IndexAdd(IndexFlatL2(dimension), embed_documents(TextsOf(remaining)))
                        ELSE IndexFlatL2(dimension)
            /\ metadata' = Renumber(remaining)
            /\ save_index(index', metadata', saveFault)
            /\ UNCHANGED <<embedding_type, dimension>>
            /\ removedDocs' = removedDocs \cup {document_id}
            /\ Returned("remove_document", "True")

\* remove_document without the early return for an id no record carries
RemoveDocument_NoEarlyReturn(document_id, embedOk, saveFault) ==
    /\ Running
    /\ RemoveRebuilds(document_id, embedOk, saveFault)

\* remove_document(document_id).  embedOk: embed_documents returns; saveFault: what
\* the file system does to the save.
RemoveDocument(document_id, embedOk, saveFault) ==
    /\ Running
    /\ IF IndicesToRemove(metadata, document_id) = {}
       THEN /\ embedOk /\ saveFault = "ok"
            /\ UNCHANGED <<store, disk, removedDocs, saveFaults>>
            /\ Returned("remove_document", "False")
       ELSE RemoveRebuilds(document_id, embedOk, saveFault)

\* remove_document reaches _save_index and the process dies in it
RemoveDocumentCrashes(document_id, point) ==
    LET remaining == SelectSeq2(metadata, IndicesToRemove(metadata, document_id))
    IN /\ Running
       /\ IndicesToRemove(metadata, document_id) # {}
       /\ remaining # <<>> => embedding_type # "none"
       /\ crash_in_save(IF remaining # <<>>
                        THEN IndexAdd(IndexFlatL2(dimension), embed_documents(TextsOf(remaining)))
                        ELSE IndexFlatL2(dimension),
                        Renumber(remaining),
                        point)

---------------------------------------------------------------------------
(* clear_all *)

ClearAll(saveFault) ==
    /\ Running
    /\ index' = IndexFlatL2(dimension)
    /\ metadata' = <<>>
    /\ save_index(index', metadata', saveFault)
    /\ UNCHANGED <<embedding_type, dimension, removedDocs>>
    /\ Returned("clear_all", "None")

\* clear_all reaches _save_index and the process dies in it
ClearAllCrashes(point) ==
    /\ Running
    /\ crash_in_save(IndexFlatL2(dimension), <<>>, point)

---------------------------------------------------------------------------
(* similarity_search *)

\* the squared L2 distance IndexFlatL2 reports
Distance(x, y) == (x - y) * (x - y)

Min(a, b) == IF a < b THEN a ELSE b

\* index.search(query_vector, kk): the answers the index may give, each a list of kk
\* distinct positions (1-based) in ascending distance, none farther than a position
\* left out; the order among equal distances is the index's choice
IndexSearch(ix, q, kk) ==
    {hits \in [1..kk -> 1..ntotal(ix)] :
        /\ \A i, j \in 1..kk : i < j =>
              /\ hits[i] # hits[j]
              /\ Distance(ix.vecs[hits[i]], q) <= Distance(ix.vecs[hits[j]], q)
        /\ \A p \in 1..ntotal(ix) :
              (\A i \in 1..kk : hits[i] # p) =>
                  \A i \in 1..kk : Distance(ix.vecs[hits[i]], q) <= Distance(ix.vecs[p], q)}

RECURSIVE JoinHits(_, _, _, _)
\* the loop over zip(distances[0], indices[0]) from its i-th hit on: a copy of the
\* record at the hit's position, when the list has one, with the distance and rank
JoinHits(md, ix, q, hits) ==
    IF hits = <<>> THEN <<>>
    ELSE LET n == Len(hits)
             front == JoinHits(md, ix, q, SubSeq(hits, 1, n - 1))
             idx == hits[n] - 1
         IN IF idx < Len(md)
            THEN Append(front, [document_id |-> md[idx + 1].document_id,
                                filename |-> md[idx + 1].filename,
                                chunk_index |-> md[idx + 1].chunk_index,
                                text |-> md[idx + 1].text,
                                vector_id |-> md[idx + 1].vector_id,
                                similarity_score |-> Distance(ix.vecs[hits[n]], q),
                                rank |-> n])
            ELSE front

\* similarity_search without its try: no list is returned when embed_query or
\* index.search raises
similarity_search_NoTry(query, k, embedOk) ==
    LET kk == Min(k, ntotal(index))
        query_vector == embed_query(query)
    IN IF embedding_type = "none" \/ ntotal(index) = 0 THEN {<<>>}
       ELSE IF ~embedOk THEN {}
       ELSE IF query_vector.d # index.d \/ kk <= 0 THEN {}
       ELSE {JoinHits(metadata, index, query_vector.x, hits) :
                hits \in IndexSearch(index, query_vector.x, kk)}

\* similarity_search(query, k), embedOk: embed_query returns: the lists the call
\* may return (one for each answer the index may give)
similarity_search(query, k, embedOk) ==
    LET kk == Min(k, ntotal(index))
        query_vector == embed_query(query)
    IN IF embedding_type = "none" \/ ntotal(index) = 0 THEN {<<>>}
       ELSE IF ~embedOk THEN {<<>>}
       \* index.search asserts d == self.d and k > 0; the except clause returns []
       ELSE IF query_vector.d # index.d \/ kk <= 0 THEN {<<>>}
       ELSE {JoinHits(metadata, index, query_vector.x, hits) :
                hits \in IndexSearch(index, query_vector.x, kk)}

\* similarity_search writing similarity_score and rank into the stored records it
\* returns, not into copies of them
SimilaritySearch_NoCopy ==
    /\ Running
    /\ \E query \in Queries, k \in Ks :
          \E results \in similarity_search(query, k, TRUE) :
             metadata' = [i \in 1..Len(metadata) |->
                            IF \E j \in 1..Len(results) : results[j].vector_id = i - 1
                            THEN LET j == CHOOSE j \in 1..Len(results) :
                                              results[j].vector_id = i - 1
                                 IN [document_id |-> metadata[i].document_id,
                                     filename |-> metadata[i].filename,
                                     chunk_index |-> metadata[i].chunk_index,
                                     text |-> metadata[i].text,
                                     vector_id |-> metadata[i].vector_id,
                                     similarity_score |-> results[j].similarity_score,
                                     rank |-> results[j].rank]
                            ELSE metadata[i]]
    /\ UNCHANGED <<embedding_type, dimension, index, disk, removedDocs, saveFaults>>
    /\ Returned("similarity_search", "list")

\* a call of similarity_search, with any query and k: it returns one of the lists
\* above (every exception is caught) and assigns nothing
SimilaritySearch ==
    /\ Running
    /\ UNCHANGED <<store, disk, removedDocs, saveFaults>>
    /\ Returned("similarity_search", "list")

---------------------------------------------------------------------------
(* get_stats *)

RECURSIVE DocumentIds(_)
\* the loop of get_stats: the set the ids of the records are added to, one by one
DocumentIds(md) ==
    IF md = <<>> THEN {}
    ELSE DocumentIds(SubSeq(md, 1, Len(md) - 1)) \cup {md[Len(md)].document_id}

\* get_stats counting the records instead of the distinct ids
StatsOf_CountsRecords(md, ix, dim) ==
    [total_chunks |-> Len(md),
     total_documents |-> Len(md),
     index_size |-> ntotal(ix),
     dimension |-> dim]

\* the dictionary get_stats builds from a list, an index and a dimension
StatsOf(md, ix, dim) ==
    [total_chunks |-> Len(md),
     total_documents |-> Cardinality(DocumentIds(md)),
     index_size |-> ntotal(ix),
     dimension |-> dim]

\* get_stats(), a function of the state
get_stats == StatsOf(metadata, index, dimension)

\* a call of get_stats: it returns the dictionary above and assigns nothing
GetStats ==
    /\ Running
    /\ UNCHANGED <<store, disk, removedDocs, saveFaults>>
    /\ Returned("get_stats", "dict")

---------------------------------------------------------------------------
(* The chat services *)

\* s[-n:]
LastN(s, n) == IF Len(s) > n THEN SubSeq(s, Len(s) - n + 1, Len(s)) ELSE s

Turn(role, content) == [role |-> role, content |-> content]

\* what the language model answers to a question
Completion(question) == IF question = "q1" THEN "a1" ELSE "a2"

RECURSIVE ContextText(_)
\* context_text: "Document: filename, Content: text" of every chunk, joined
ContextText(context_chunks) ==
    IF context_chunks = <<>> THEN ""
    ELSE "Document: " \o context_chunks[1].filename
            \o " Content: " \o context_chunks[1].text \o "; "
            \o ContextText(Tail(context_chunks))

\* ChatService._create_system_prompt: another prompt when nothing was retrieved
create_system_prompt(context_chunks) ==
    IF context_chunks = <<>> THEN "no relevant documents were found"
    ELSE "CONTEXT FROM UPLOADED DOCUMENTS: " \o ContextText(context_chunks)

RECURSIVE NumberedTexts(_, _)
\* the response parts "i. text" of the relevant texts, from the i-th on
NumberedTexts(relevant_texts, i) ==
    IF i > Len(relevant_texts) THEN ""
    ELSE ToString(i) \o ". " \o relevant_texts[i].text \o "; "
            \o NumberedTexts(relevant_texts, i + 1)

\* LocalChatService._create_simple_response, for texts of at most 200 characters:
\* the question and the texts of the three nearest chunks
create_simple_response(question, context_chunks) ==
    IF context_chunks = <<>>
    THEN "I couldn't find any relevant information about '" \o question \o "'"
    ELSE "here's what I found regarding '" \o question \o "': "
            \o NumberedTexts(SubSeq(context_chunks, 1, Min(3, Len(context_chunks))), 1)

\* doc_info of _format_sources
SourceLabel(chunk) ==
    chunk.filename \o " (chunk " \o ToString(chunk.chunk_index + 1) \o ")"

RECURSIVE FormatSourcesFrom(_, _, _)
\* the loop of _format_sources: sources and seen_docs after the chunks left to visit
FormatSourcesFrom(context_chunks, sources, seen_docs) ==
    IF context_chunks = <<>> THEN sources
    ELSE LET doc_info == SourceLabel(context_chunks[1])
         IN IF doc_info \notin seen_docs
            THEN FormatSourcesFrom(Tail(context_chunks), Append(sources, doc_info),
                                   seen_docs \cup {doc_info})
            ELSE FormatSourcesFrom(Tail(context_chunks), sources, seen_docs)

\* _format_sources keeping only the last label seen
format_sources_NoSeenSet(context_chunks) ==
    [i \in 1..Len(context_chunks) |-> SourceLabel(context_chunks[i])]

\* _format_sources of both chat services
format_sources(context_chunks) == FormatSourcesFrom(context_chunks, <<>>, {})

\* get_conversation_history(conversation_id)
get_conversation_history(conversation_id) ==
    IF conversation_id \in DOMAIN conversations
    THEN conversations[conversation_id] ELSE <<>>

\* the loop over recent_history: the user and assistant turns, in order
HistoryMessages(recent_history) ==
    SelectSeq(recent_history, LAMBDA entry : entry.role \in {"user", "assistant"})

\* the message list with the whole history instead of its last turns
BuildMessages_WholeHistory(context_chunks, question, conversation_id) ==
    LET system == Turn("system", create_system_prompt(context_chunks))
        user == Turn("user", question)
    IN IF conversation_id \in DOMAIN conversations
       THEN <<system>> \o HistoryMessages(conversations[conversation_id]) \o <<user>>
       ELSE <<system, user>>

\* the messages ChatService.chat sends to the language model
BuildMessages(context_chunks, question, conversation_id) ==
    LET system == Turn("system", create_system_prompt(context_chunks))
        user == Turn("user", question)
    IN IF conversation_id \in DOMAIN conversations
       THEN <<system>>
               \o HistoryMessages(LastN(conversations[conversation_id], RecentTurns))
               \o <<user>>
       ELSE <<system, user>>

\* the history after the two turns are appended, keeping the first HistoryCap entries
StoreTurns_KeepsOldest(history, question, answer) ==
    LET extended == history \o <<Turn("user", question), Turn("assistant", answer)>>
    IN IF Len(extended) > HistoryCap THEN SubSeq(extended, 1, HistoryCap) ELSE extended

\* the history with the answer appended before the question
StoreTurns_AnswerFirst(history, question, answer) ==
    LET extended == history \o <<Turn("assistant", answer), Turn("user", question)>>
    IN IF Len(extended) > HistoryCap THEN LastN(extended, HistoryCap) ELSE extended

\* the history after the two turns are appended and the list is cut to its last
\* HistoryCap entries
StoreTurns(history, question, answer) ==
    LET extended == history \o <<Turn("user", question), Turn("assistant", answer)>>
    IN IF Len(extended) > HistoryCap THEN LastN(extended, HistoryCap) ELSE extended

\* the map with the history of conversation_id replaced
WithHistory(conversation_id, history) ==
    [id \in DOMAIN conversations \cup {conversation_id} |->
        IF id = conversation_id THEN history ELSE conversations[id]]

\* chat returns an apology and an error; no turn is stored
ChatFails_StoresQuestion(question, conversation_id, answer) ==
    /\ reply' = [answer |-> answer, sources |-> <<>>,
                 conversation_id |-> conversation_id, error |-> TRUE]
    /\ conversations' = WithHistory(conversation_id,
                            get_conversation_history(conversation_id)
                                \o <<Turn("user", question)>>)
    /\ UNCHANGED chat_service
    /\ Returned("chat", "dict")

\* chat that makes the empty history of a new conversation before it generates
ChatFails_CreatesEntry(question, conversation_id, answer) ==
    /\ reply' = [answer |-> answer, sources |-> <<>>,
                 conversation_id |-> conversation_id, error |-> TRUE]
    /\ conversations' = WithHistory(conversation_id,
                                    get_conversation_history(conversation_id))
    /\ UNCHANGED chat_service
    /\ Returned("chat", "dict")

\* chat returns an apology and an error; no turn is stored
ChatFails(question, conversation_id, answer) ==
    /\ reply' = [answer |-> answer, sources |-> <<>>,
                 conversation_id |-> conversation_id, error |-> TRUE]
    /\ UNCHANGED <<chat_service, conversations>>
    /\ Returned("chat", "dict")

\* chat stores the two turns and returns the answer with its sources
ChatAnswers(question, conversation_id, context_chunks, answer) ==
    /\ conversations' = WithHistory(conversation_id,
                            StoreTurns(get_conversation_history(conversation_id),
                                       question, answer))
    /\ reply' = [answer |-> answer, sources |-> format_sources(context_chunks),
                 conversation_id |-> conversation_id, error |-> FALSE]
    /\ UNCHANGED chat_service
    /\ Returned("chat", "dict")

\* the turns that are the second question or an answer built from no chunk
Unusual ==
    {Turn("user", "q2")}
        \cup {Turn("assistant", create_simple_response(q, <<>>)) : q \in Queries}

\* the stored turns that are unusual ones
UnusualTurns(convs) ==
    UNION {{<<id, i>> : i \in {j \in 1..Len(convs[id]) : convs[id][j] \in Unusual}} :
              id \in DOMAIN convs}

\* the chats explored: no other conversation is a long one
ChatBound(conversation_id) ==
    \A other \in DOMAIN conversations \ {conversation_id} :
        Len(conversations[other]) <= MaxShortHistory

\* the chats explored: few of the turns stored are unusual ones
HistoryBound == Cardinality(UnusualTurns(conversations')) <= MaxUnusualTurns

\* chat(question, conversation_id) on a conversation id.  embedOk: embed_query
\* returns; llmOk: the language model answers within its timeout
ChatOn(question, conversation_id, embedOk, llmOk) ==
    /\ Running
    /\ ChatBound(conversation_id)
    /\ UNCHANGED <<store, disk, removedDocs, saveFaults, api>>
    /\ IF chat_service = "unconfigured"
       THEN /\ embedOk /\ llmOk
            /\ ChatFails(question, conversation_id, "the chat service is not configured")
       ELSE \E context_chunks \in similarity_search(question, DefaultK, embedOk) :
               IF chat_service = "llm"
               THEN IF llmOk
                    THEN ChatAnswers(question, conversation_id, context_chunks,
                                     Completion(question))
                    ELSE ChatFails(question, conversation_id,
                                   "error retrieving the response")
               ELSE /\ llmOk
                    /\ ChatAnswers(question, conversation_id, context_chunks,
                                   create_simple_response(question, context_chunks))
    /\ HistoryBound

\* chat(question, conversation_id): an id of the client's
Chat(question, conversation_id, embedOk, llmOk) ==
    ChatOn(question, conversation_id, embedOk, llmOk)

\* chat(question) without an id: str(uuid.uuid4()), an id no conversation has
ChatNew(question, embedOk, llmOk) ==
    \E conversation_id \in Uuids \ DOMAIN conversations :
        ChatOn(question, conversation_id, embedOk, llmOk)

\* clear_conversation that answers True whatever the map holds
ClearConversation_AlwaysTrue(conversation_id) ==
    /\ Running
    /\ conversations' = [id \in DOMAIN conversations \ {conversation_id} |->
                            conversations[id]]
    /\ Returned("clear_conversation", "True")
    /\ UNCHANGED <<store, disk, removedDocs, saveFaults, api, chat_service, reply>>

\* clear_conversation(conversation_id)
ClearConversation(conversation_id) ==
    /\ Running
    /\ IF conversation_id \in DOMAIN conversations
       THEN /\ conversations' = [id \in DOMAIN conversations \ {conversation_id} |->
                                    conversations[id]]
            /\ Returned("clear_conversation", "True")
       ELSE /\ UNCHANGED conversations
            /\ Returned("clear_conversation", "False")
    /\ UNCHANGED <<store, disk, removedDocs, saveFaults, api, chat_service, reply>>

\* the chat services get_services can build
ChatServices == {"local", "llm", "unconfigured"}

\* the store the chat service wraps: a.txt uploaded twice, once as two chunks and
\* once as one, added under the local provider and saved.  The second chunk of the
\* first upload is the nearest to every question
ChatInit ==
    /\ embedding_type = "local"
    /\ dimension = LocalDimension
    /\ metadata = AppendChunks(AppendChunks(<<>>, <<"t0", "t1">>, "d1", "a.txt", 1),
                               <<"t0">>, "d2", "a.txt", 1)
    /\ index = [d |-> LocalDimension,
                vecs |-> <<Coord("t0"), Coord("t1"), Coord("t0")>>]
    /\ index_file = Written(index)
    /\ metadata_file = Written(metadata)
    /\ op = "init"
    /\ ret = "None"
    /\ removedDocs = {}
    /\ saveFaults = 0
    /\ chat_service \in ChatServices
    /\ conversations = NoConversations
    /\ reply = NoReply
    /\ registry = NoDocuments
    /\ task = NoTask
    /\ services = OneOfEach
    /\ requests = [r \in Requests |-> Waiting]

ChatNext ==
    \/ \E question \in Queries, conversation_id \in ConvIds \cup DOMAIN conversations,
          embedOk \in BOOLEAN, llmOk \in BOOLEAN :
          Chat(question, conversation_id, embedOk, llmOk)
    \/ \E question \in Queries, embedOk \in BOOLEAN, llmOk \in BOOLEAN :
          ChatNew(question, embedOk, llmOk)
    \/ \E conversation_id \in ConvIds \cup Uuids : ClearConversation(conversation_id)

ChatSpec == ChatInit /\ [][ChatNext]_vars

---------------------------------------------------------------------------
(* The request handlers *)

\* the event loop of the one server process starts a handler when no other is
\* running: every handler is an async def without an await
CanStart == task.at = "idle"

\* the handler returned or raised its HTTPException
Responds(handler, document_id, status) ==
    task' = [handler |-> handler, document_id |-> document_id,
             at |-> "idle", status |-> status]

\* uuid4 of process_document: an id that names nothing held anywhere
FreshDocumentId(document_id) ==
    /\ document_id \notin DOMAIN registry
    /\ IndicesToRemove(metadata, document_id) = {}
    /\ IndicesToRemove(metadata_file.data, document_id) = {}

\* self.metadata[document_id] = metadata of process_document
WithDocument(document_id, filename) ==
    [id \in DOMAIN registry \cup {document_id} |->
        IF id = document_id THEN filename ELSE registry[id]]

\* POST /upload of a file whose text splits into c.chunks: process_document, which
\* raises for a text that is empty, then add_documents; the ValueError of a store
\* without provider is answered as a success
UploadDocument(c, embedOk, saveFault) ==
    /\ CanStart
    /\ FreshDocumentId(c.document_id)
    /\ UNCHANGED <<chat, singletons>>
    /\ IF c.chunks = <<>>
       THEN /\ embedOk /\ saveFault = "ok"
            /\ Running
            /\ UNCHANGED <<store, disk, removedDocs, saveFaults, op, ret, registry>>
            /\ Responds("upload_document", c.document_id, "500")
       ELSE /\ registry' = WithDocument(c.document_id, c.filename)
            /\ AddDocuments(c.chunks, c.document_id, c.filename, embedOk, saveFault)
            /\ Responds("upload_document", c.document_id,
                        IF ret' = "raised" /\ embedding_type # "none"
                        THEN "500" ELSE "200")

\* DELETE /documents/{document_id}, up to the deletion of the records in
\* remove_document: the records of the document are gone, the index is not rebuilt
DeleteDocumentBegins(document_id) ==
    /\ CanStart
    /\ Running
    /\ IndicesToRemove(metadata, document_id) # {}
    /\ metadata' = SelectSeq2(metadata, IndicesToRemove(metadata, document_id))
    /\ task' = [handler |-> "delete_document", document_id |-> document_id,
                at |-> "remove_document", status |-> ""]
    /\ UNCHANGED <<embedding_type, dimension, index, disk, removedDocs, saveFaults,
                   op, ret, chat, registry, singletons>>

\* doc_processor.delete_document and the answer of the handler: vector_removed is
\* not read
DeleteFromRegistry(document_id) ==
    /\ registry' = [id \in DOMAIN registry \ {document_id} |-> registry[id]]
    /\ Responds("delete_document", document_id,
                IF document_id \in DOMAIN registry THEN "200" ELSE "404")

\* the rest of DELETE /documents/{document_id}: remove_document from the rebuild
\* on, then the registry
DeleteDocumentCompletes(embedOk, saveFault) ==
    /\ task.at = "remove_document"
    /\ Running
    /\ RemoveRebuilds(task.document_id, embedOk, saveFault)
    /\ DeleteFromRegistry(task.document_id)
    /\ UNCHANGED <<chat, singletons>>

\* DELETE /documents/{document_id} for an id no record carries: remove_document
\* returns False at once
DeleteUnknownDocument(document_id) ==
    /\ CanStart
    /\ IndicesToRemove(metadata, document_id) = {}
    /\ RemoveDocument(document_id, TRUE, "ok")
    /\ DeleteFromRegistry(document_id)
    /\ UNCHANGED <<chat, singletons>>

\* POST /search
SearchDocuments ==
    /\ CanStart
    /\ SimilaritySearch
    /\ Responds("search_documents", "", "200")
    /\ UNCHANGED <<chat, registry, singletons>>

\* GET /stats
Stats ==
    /\ CanStart
    /\ GetStats
    /\ Responds("get_stats", "", "200")
    /\ UNCHANGED <<chat, registry, singletons>>

ApiNext ==
    \/ \E c \in AddCalls, embedOk \in BOOLEAN, saveFault \in SaveFaults :
          UploadDocument(c, embedOk, saveFault)
    \/ \E document_id \in DocIds : DeleteDocumentBegins(document_id)
    \/ \E embedOk \in BOOLEAN, saveFault \in SaveFaults :
          DeleteDocumentCompletes(embedOk, saveFault)
    \/ \E document_id \in DocIds : DeleteUnknownDocument(document_id)
    \/ SearchDocuments
    \/ Stats

ApiSpec == Init /\ [][ApiNext]_vars

---------------------------------------------------------------------------
(* get_services *)

\* a request is in its handler, get_services included
InFlight(r) == requests[r].pc \in {"test", "make", "handler"}

\* a scheduler that runs the handlers in threads: any request takes the next step
Scheduled_Preemptive(r) == TRUE

\* the event loop runs a handler, an async def without an await, to its end
\* before it starts another: a request steps when no other one is in flight
Scheduled(r) == \A other \in Requests \ {r} : ~InFlight(other)

\* the request r is at pc and the rest of the state as it was
At(r, pc, at, got) ==
    /\ requests' = [requests EXCEPT ![r] = [pc |-> pc, at |-> at, got |-> got]]
    /\ UNCHANGED <<store, disk, op, ret, removedDocs, saveFaults, chat, registry, task>>

\* the handler of r is started and calls get_services
Arrives(r) ==
    /\ Scheduled(r)
    /\ requests[r].pc = "waiting"
    /\ At(r, "test", 1, <<>>)
    /\ UNCHANGED services

\* `if document_processor is None:` and the two tests after it; after the last
\* one get_services returns the three globals
Tests(r) ==
    /\ Scheduled(r)
    /\ requests[r].pc = "test"
    /\ LET at == requests[r].at
       IN IF at > Len(Globals)
          THEN At(r, "handler", at,
                  <<services.document_processor, services.vector_store,
                    services.chat_service, services.wraps>>)
          ELSE IF services[Globals[at]] = 0
          THEN At(r, "make", at, <<>>)
          ELSE At(r, "test", at + 1, <<>>)
    /\ UNCHANGED services

\* the constructor call and the assignment to the global.  ok: the constructor
\* returns; DocumentProcessor() raises when metadata.json cannot be read, and
\* get_services with it.  The chat service is given the vector store held then; a
\* ChatService that raises is replaced by a LocalChatService
Constructs(r, ok) ==
    /\ Scheduled(r)
    /\ requests[r].pc = "make"
    /\ LET at == requests[r].at
           made == Globals[at]
       IN IF made = "document_processor" /\ ~ok
          THEN /\ At(r, "failed", at, <<>>)
               /\ UNCHANGED services
          ELSE /\ ok
               /\ services' = [services EXCEPT
                                 ![made] = @ + 1,
                                 !.wraps = IF made = "chat_service"
                                           THEN services.vector_store ELSE @]
               /\ At(r, "test", at + 1, <<>>)

\* the handler works on what get_services returned and answers
Answers(r) ==
    /\ Scheduled(r)
    /\ requests[r].pc = "handler"
    /\ At(r, "done", requests[r].at, requests[r].got)
    /\ UNCHANGED services

\* a new process: no request has called get_services yet
ServicesInit ==
    /\ embedding_type \in Providers
    /\ dimension = ProviderDimension(embedding_type)
    /\ index = IndexFlatL2(dimension)
    /\ metadata = <<>>
    /\ index_file = Absent(NoIndex)
    /\ metadata_file = Absent(<<>>)
    /\ op = "init"
    /\ ret = "None"
    /\ removedDocs = {}
    /\ saveFaults = 0
    /\ chat_service = "local"
    /\ conversations = NoConversations
    /\ reply = NoReply
    /\ registry = NoDocuments
    /\ task = NoTask
    /\ services = NoServices
    /\ requests = [r \in Requests |-> Waiting]

ServicesNext ==
    \/ \E r \in Requests : Arrives(r)
    \/ \E r \in Requests : Tests(r)
    \/ \E r \in Requests, ok \in BOOLEAN : Constructs(r, ok)
    \/ \E r \in Requests : Answers(r)

ServicesSpec == ServicesInit /\ [][ServicesNext]_vars

---------------------------------------------------------------------------
(* The store under every sequence of calls and restarts *)

\* the store, called directly: the chat service and the request handlers stay as built
Next ==
    \/ \E c \in AddCalls, embedOk \in BOOLEAN, saveFault \in SaveFaults :
          AddDocuments(c.chunks, c.document_id, c.filename, embedOk, saveFault)
          /\ UNCHANGED <<chat, api>>
    \/ \E document_id \in DocIds, embedOk \in BOOLEAN, saveFault \in SaveFaults :
          RemoveDocument(document_id, embedOk, saveFault) /\ UNCHANGED <<chat, api>>
    \/ \E saveFault \in SaveFaults : ClearAll(saveFault) /\ UNCHANGED <<chat, api>>
    \/ SimilaritySearch /\ UNCHANGED <<chat, api>>
    \/ GetStats /\ UNCHANGED <<chat, api>>
    \/ \E c \in AddCalls, point \in CrashPoints :
          AddDocumentsCrashes(c.chunks, c.document_id, c.filename, point)
          /\ UNCHANGED <<chat, api>>
    \/ \E document_id \in DocIds, point \in CrashPoints :
          RemoveDocumentCrashes(document_id, point) /\ UNCHANGED <<chat, api>>
    \/ \E point \in CrashPoints : ClearAllCrashes(point) /\ UNCHANGED <<chat, api>>
    \/ \E localLoads \in BOOLEAN, haveCredentials \in BOOLEAN, probeOk \in BOOLEAN :
          Restart(localLoads, haveCredentials, probeOk) /\ UNCHANGED <<chat, api>>

Spec == Init /\ [][Next]_vars

---------------------------------------------------------------------------
(* Claims about the store *)

\* the last call changed the store and reported success
MutatingCallSucceeded ==
    \/ op \in {"add_documents", "clear_all"} /\ ret = "None"
    \/ op = "remove_document" /\ ret = "True"

\* C1: after every call, the metadata list and the index hold the same number of
\* entries.
C1_MetadataMatchesIndex == Len(metadata) = ntotal(index)

\* C2: between two calls, every record's vector_id is its position in the list.
C2_SlotIsPosition == \A i \in 1..Len(metadata) : metadata[i].vector_id = i - 1

\* C3: a remove_document whose re-embedding fails leaves the list and the index as
\* they were before the call.
C3_FailedRemoveChangesNothing ==
    [][\A document_id \in DocIds, embedOk \in BOOLEAN :
          (/\ op' = "remove_document"
           /\ ReembedFails(document_id, embedOk)
           /\ RemoveDocument(document_id, embedOk, "ok"))
          => UNCHANGED <<metadata, index>>]_vars

\* C4: a remove_document of an id some record carries, whose re-embedding does not
\* fail, returns True, leaves no record with that id and total_chunks smaller by the
\* number of records removed; and no similarity_search returns a chunk of a removed
\* id until that id is added again.
C4_RemoveDeletesDocument ==
    /\ [][\A document_id \in DocIds, embedOk \in BOOLEAN, saveFault \in SaveFaults :
            (/\ op' = "remove_document"
             /\ \E i \in 1..Len(metadata) : metadata[i].document_id = document_id
             /\ ~ReembedFails(document_id, embedOk)
             /\ RemoveDocument(document_id, embedOk, saveFault))
            => /\ ret' = "True"
               /\ \A i \in 1..Len(metadata') : metadata'[i].document_id # document_id
               /\ get_stats'.total_chunks = get_stats.total_chunks -
                     Cardinality({i \in 1..Len(metadata) :
                                     metadata[i].document_id = document_id})]_vars
    /\ [](removedDocs # {} =>
            \A query \in Queries, k \in Ks, embedOk \in BOOLEAN :
                \A res \in similarity_search(query, k, embedOk) :
                    \A i \in 1..Len(res) : res[i].document_id \notin removedDocs)

\* a search that returns a chunk, on a store a document was removed from
C4_Witness ==
    /\ op = "similarity_search"
    /\ removedDocs # {}
    /\ \E query \in Queries, k \in Ks : \E res \in similarity_search(query, k, TRUE) :
          res # <<>>

\* C5: remove_document of an id no record carries returns False and changes neither
\* the list, the index nor the two files.
C5_RemoveMissingIsNoOp ==
    [][\A document_id \in DocIds, embedOk \in BOOLEAN, saveFault \in SaveFaults :
          (/\ op' = "remove_document"
           /\ \A i \in 1..Len(metadata) : metadata[i].document_id # document_id
           /\ RemoveDocument(document_id, embedOk, saveFault))
          => /\ ret' = "False"
             /\ UNCHANGED <<metadata, index, index_file, metadata_file>>]_vars

\* remove_document returned False on a store that holds another document, in step
\* with its index and with its files
C5_Witness ==
    /\ op = "remove_document" /\ ret = "False"
    /\ metadata # <<>>
    /\ \E document_id \in DocIds :
          \A i \in 1..Len(metadata) : metadata[i].document_id # document_id
    /\ Len(metadata) = ntotal(index)
    /\ index_file = Written(index) /\ metadata_file = Written(metadata)

\* C6: a remove_document whose re-embedding fails raises to its caller.
C6_FailedRemoveRaises ==
    [][\A document_id \in DocIds, embedOk \in BOOLEAN :
          (/\ op' = "remove_document"
           /\ ReembedFails(document_id, embedOk)
           /\ RemoveDocument(document_id, embedOk, "ok"))
          => ret' = "raised"]_vars

\* C7: without an embedding provider add_documents raises and changes neither the
\* list, the index nor the two files.
C7_AddWithoutProviderRaises ==
    [][(op' = "add_documents" /\ embedding_type = "none")
          => /\ ret' = "raised"
             /\ UNCHANGED <<metadata, index, index_file, metadata_file>>]_vars

\* add_documents raised on a store without a provider that holds records
C7_Witness ==
    /\ op = "add_documents" /\ ret = "raised"
    /\ embedding_type = "none"
    /\ metadata # <<>>

\* C8: whenever add_documents raises, the index and the list are as before the call.
C8_FailedAddInsertsNothing ==
    [][(op' = "add_documents" /\ ret' = "raised")
          => UNCHANGED <<metadata, index>>]_vars

\* add_documents raised with a provider, on an index of another dimension that
\* holds vectors
C8_Witness ==
    /\ op = "add_documents" /\ ret = "raised"
    /\ embedding_type # "none"
    /\ index.d # dimension
    /\ ntotal(index) > 0

\* C9: a successful add_documents appends one vector per chunk to the index and one
\* record per chunk to the list, after the records and vectors already there: the
\* i-th new record has chunk_index i - 1, the chunk's text, the call's document_id
\* and filename, and as vector_id the length of the list when it was appended.
C9_AddAppendsChunks ==
    [][\A c \in AddCalls, saveFault \in SaveFaults :
          (/\ op' = "add_documents" /\ ret' = "None"
           /\ AddDocuments(c.chunks, c.document_id, c.filename, TRUE, saveFault))
          => /\ Len(metadata') = Len(metadata) + Len(c.chunks)
             /\ ntotal(index') = ntotal(index) + Len(c.chunks)
             /\ SubSeq(metadata', 1, Len(metadata)) = metadata
             /\ SubSeq(index'.vecs, 1, ntotal(index)) = index.vecs
             /\ \A i \in 1..Len(c.chunks) :
                   metadata'[Len(metadata) + i] =
                       [document_id |-> c.document_id,
                        filename |-> c.filename,
                        chunk_index |-> i - 1,
                        text |-> c.chunks[i],
                        vector_id |-> Len(metadata) + i - 1]]_vars

\* add_documents returned after appending a record to a list that held another
\* document's
C9_Witness ==
    /\ op = "add_documents" /\ ret = "None"
    /\ Len(metadata) = 2
    /\ metadata[1].document_id # metadata[2].document_id
    /\ metadata[2].chunk_index = 0
    /\ metadata[2].vector_id = 1

\* C10: when a mutating call has returned success, the two files hold the index and
\* the list the call produced.
C10_SuccessMeansPersisted ==
    MutatingCallSucceeded =>
        /\ index_file = Written(index)
        /\ metadata_file = Written(metadata)

\* the index file holds at least as many vectors as the metadata file holds
\* records, whenever both files load
IndexFileCoversMetadataFile ==
    (index_file.st = "ok" /\ metadata_file.st = "ok")
        => ntotal(index_file.data) >= Len(metadata_file.data)

\* C11: a save writes the index file before the metadata file, and a crash during
\* the save of add_documents, remove_document or clear_all, on files where the
\* index file covered the metadata file, leaves files where it still does: no
\* record on disk is without a vector on disk.
C11_CrashLeavesIndexAhead ==
    [][op' = "crash"
          => /\ metadata_file' # metadata_file => index_file'.st = "ok"
             /\ IndexFileCoversMetadataFile => IndexFileCoversMetadataFile']_vars

\* C12: a store constructed over the directory of a store whose last mutating call
\* returned success holds the same list, in the same order, and an index of the
\* same size.
C12_ReloadRoundTrips ==
    [][(op' = "init" /\ MutatingCallSucceeded)
          => /\ metadata' = metadata
             /\ ntotal(index') = ntotal(index)]_vars

\* C13: construction returns, and it loads the index and the list from the two
\* files when both load; when either file is missing or does not load, the store
\* starts with an empty index of its dimension and an empty list.
C13_LoadsBothOrNeither ==
    [][op' = "init"
          => /\ ret' = "None"
             /\ (index_file.st = "ok" /\ metadata_file.st = "ok")
                   => (index' = index_file.data /\ metadata' = metadata_file.data)
             /\ (index_file.st # "ok" \/ metadata_file.st # "ok")
                   => (ntotal(index') = 0 /\ index'.d = dimension' /\ metadata' = <<>>)]_vars

\* a store constructed over an index file that holds vectors and a metadata file
\* that does not load
C13_Witness ==
    /\ op = "init"
    /\ index_file.st = "ok" /\ ntotal(index_file.data) > 0
    /\ metadata_file.st = "corrupt"
    /\ ntotal(index) = 0 /\ metadata = <<>>

\* C14: similarity_search returns a list whatever happens and changes neither the
\* store nor the files; the list is empty when there is no provider, when the
\* index is empty, when embedding the query fails and when the index search fails
\* (a query vector of another length than the index's, or no hit asked for).
C14_SearchNeverRaises ==
    /\ [][op' = "similarity_search"
            => (ret' = "list" /\ UNCHANGED <<store, disk>>)]_vars
    /\ [](\A query \in Queries, k \in Ks, embedOk \in BOOLEAN :
            LET res == similarity_search(query, k, embedOk)
            IN /\ res # {}
               /\ (\/ embedding_type = "none"
                   \/ ntotal(index) = 0
                   \/ ~embedOk
                   \/ embed_query(query).d # index.d
                   \/ k < 1) => res = {<<>>})

\* a search, with a provider, on an index that holds vectors of another length
\* than the provider's
C14_Witness ==
    /\ op = "similarity_search"
    /\ embedding_type # "none"
    /\ ntotal(index) > 0
    /\ embed_query("q1").d # index.d

\* C15: with a provider, and the query embedded, similarity_search(q, k) with
\* k >= 1 returns min(k, index size) results.
C15_SearchReturnsMinKSize ==
    (Running /\ embedding_type # "none") =>
        \A query \in Queries, k \in Ks \ {0} :
            \A res \in similarity_search(query, k, TRUE) :
                Len(res) = Min(k, ntotal(index))

\* C16: the results of a search the index answered are in ascending order of
\* similarity_score, and they are the nearest vectors of the index: the score of
\* the i-th result is the i-th smallest distance from the query to an indexed
\* vector.
C16_ResultsAreNearestAscending ==
    (Running /\ embedding_type # "none" /\ index.d = dimension) =>
        \A query \in Queries, k \in Ks \ {0} :
            \A res \in similarity_search(query, k, TRUE) :
                /\ \A i, j \in 1..Len(res) :
                      i < j => res[i].similarity_score <= res[j].similarity_score
                /\ \A i \in 1..Len(res) :
                      LET q == embed_query(query).x
                          nearer == {p \in 1..ntotal(index) :
                                        Distance(index.vecs[p], q) < res[i].similarity_score}
                          within == {p \in 1..ntotal(index) :
                                        Distance(index.vecs[p], q) <= res[i].similarity_score}
                      IN Cardinality(nearer) < i /\ Cardinality(within) >= i

\* C17: the i-th result of a search has rank i, and it is the record the list
\* holds at the matched position of the index (its vector_id is that position,
\* its similarity_score the distance from the query to the vector there) with
\* the record's document_id, filename, chunk_index and text.
C17_ResultIsRecordAtSlot ==
    (Running /\ embedding_type # "none" /\ index.d = dimension) =>
        \A query \in Queries, k \in Ks \ {0} :
            \A res \in similarity_search(query, k, TRUE) :
                \A i \in 1..Len(res) :
                    LET p == res[i].vector_id + 1
                    IN /\ res[i].rank = i
                       /\ p \in 1..ntotal(index)
                       /\ p \in 1..Len(metadata)
                       /\ res[i].similarity_score =
                             Distance(index.vecs[p], embed_query(query).x)
                       /\ res[i].document_id = metadata[p].document_id
                       /\ res[i].filename = metadata[p].filename
                       /\ res[i].chunk_index = metadata[p].chunk_index
                       /\ res[i].text = metadata[p].text

\* three chunks added under d1 and two under d2 to an empty list
FiveChunksTwoDocuments ==
    AppendChunks(AppendChunks(<<>>, <<"t1", "t2", "t1">>, "d1", "a.txt", 1),
                 <<"t2", "t1">>, "d2", "b.pdf", 1)

\* C18: get_stats returns, changes nothing, and reports as total_chunks the length
\* of the list and as total_documents the number of distinct document_id values
\* in it, with or without a provider; three chunks under d1 and two under d2 give
\* 5 and 2.
C18_StatsCountChunksAndDocuments ==
    /\ [][op' = "get_stats" => (ret' = "dict" /\ UNCHANGED <<store, disk>>)]_vars
    /\ [](/\ get_stats.total_chunks = Len(metadata)
          /\ get_stats.total_documents =
                Cardinality({metadata[i].document_id : i \in 1..Len(metadata)})
          /\ StatsOf(FiveChunksTwoDocuments, index, dimension).total_chunks = 5
          /\ StatsOf(FiveChunksTwoDocuments, index, dimension).total_documents = 2)

\* get_stats returned without a provider on a list of two chunks of one document
C18_Witness ==
    /\ op = "get_stats"
    /\ embedding_type = "none"
    /\ Len(metadata) = 2
    /\ metadata[1].document_id = metadata[2].document_id
    /\ get_stats.total_chunks = 2 /\ get_stats.total_documents = 1

\* C19: clear_all leaves an empty index of the store's dimension and an empty
\* list, writes both to the files and keeps provider and dimension; get_stats
\* then reports no chunk, no document and index_size 0, and every search
\* returns the empty list.
C19_ClearAllEmptiesAndPersists ==
    [][op' = "clear_all"
          => /\ index' = IndexFlatL2(dimension)
             /\ metadata' = <<>>
             /\ index_file' = Written(index')
             /\ metadata_file' = Written(metadata')
             /\ UNCHANGED <<embedding_type, dimension>>
             /\ get_stats' = [total_chunks |-> 0, total_documents |-> 0,
                              index_size |-> 0, dimension |-> dimension]
             /\ \A query \in Queries, k \in Ks, embedOk \in BOOLEAN :
                   similarity_search(query, k, embedOk)' = {<<>>}]_vars

\* C20: the vectors of the index have the length the store reports as dimension,
\* also right after loading files written under another provider, and dimension
\* does not change while the store lives.
C20_IndexHasStoreDimension ==
    /\ [][(Running /\ op' \notin {"init", "crash"}) => dimension' = dimension]_vars
    /\ [](index.d = dimension /\ get_stats.dimension = dimension)

---------------------------------------------------------------------------
(* The chat services: conversations *)

\* C21: every stored history has even length, alternates user and assistant turns
\* and has at most 20 entries; an answered chat leaves the most recent entries in
\* their order: the new history ends with the answer, its entries before the last
\* two are the end of the old one, and entries are dropped only when it is full
C21_HistoryIsRecentPairs ==
    /\ [](\A id \in DOMAIN conversations :
            LET history == conversations[id]
            IN /\ Len(history) % 2 = 0
               /\ Len(history) <= HistoryCap
               /\ \A i \in 1..Len(history) :
                     history[i].role = IF i % 2 = 1 THEN "user" ELSE "assistant")
    /\ [][(op' = "chat" /\ ~reply'.error) =>
             LET id == reply'.conversation_id
                 old == get_conversation_history(id)
                 new == conversations'[id]
                 kept == Len(new) - 2
             IN /\ kept >= 0 /\ kept <= Len(old)
                /\ new[Len(new)].content = reply'.answer
                /\ SubSeq(new, 1, kept) = SubSeq(old, Len(old) - kept + 1, Len(old))
                /\ kept < Len(old) => Len(new) = HistoryCap]_vars

\* a chat answered on a conversation that holds 20 entries
C21_Witness ==
    /\ op = "chat" /\ ~reply.error
    /\ Len(get_conversation_history(reply.conversation_id)) = HistoryCap
    /\ Turn("user", "q2") \in
          {conversations[reply.conversation_id][i] : i \in (HistoryCap - 1)..HistoryCap}

\* C22: after a successful chat(question, conversation_id) the history of the
\* conversation ends with {user, question}, {assistant, the answer returned}, and
\* the entries before them are the previous history less the entries trimmed
C22_ChatAppendsQuestionAndAnswer ==
    [][\A question \in Queries, conversation_id \in ConvIds \cup Uuids,
          embedOk \in BOOLEAN, llmOk \in BOOLEAN :
          (/\ op' = "chat"
           /\ ~reply'.error
           /\ ChatOn(question, conversation_id, embedOk, llmOk)) =>
              LET old == get_conversation_history(conversation_id)
                  new == conversations'[conversation_id]
                  n == Len(new)
              IN /\ n >= 2
                 /\ new[n - 1] = Turn("user", question)
                 /\ new[n] = Turn("assistant", reply'.answer)
                 /\ SubSeq(new, 1, n - 2) = LastN(old, HistoryCap - 2)]_vars

\* a successful chat on a conversation that had turns before
C22_Witness ==
    /\ op = "chat" /\ ~reply.error
    /\ Len(get_conversation_history(reply.conversation_id)) >= 4
    /\ reply.answer # ""

\* the chat cannot generate: no language model is configured, or its call fails
GenerationFails(llmOk) ==
    chat_service = "unconfigured" \/ (chat_service = "llm" /\ ~llmOk)

\* the response of a chat that failed: an apology, an error, no sources, the id
ErrorResponse(r, conversation_id) ==
    /\ r.error
    /\ r.answer # ""
    /\ r.sources = <<>>
    /\ r.conversation_id = conversation_id

\* C23 as stated: when the language-model call fails, when retrieval fails or when
\* no language model is configured, chat returns the error response and leaves the
\* histories as they were
C23_FailedChatRecordsNothing ==
    [][\A question \in Queries, conversation_id \in ConvIds \cup Uuids,
          embedOk \in BOOLEAN, llmOk \in BOOLEAN :
          (/\ op' = "chat"
           /\ ChatOn(question, conversation_id, embedOk, llmOk)
           /\ (GenerationFails(llmOk) \/ ~embedOk)) =>
              /\ ret' = "dict"
              /\ ErrorResponse(reply', conversation_id)
              /\ UNCHANGED conversations]_vars

\* C23, amended: chat always returns a response; when the language-model call
\* fails or no language model is configured it is the error response and the
\* histories are as they were; when only retrieval fails the chat goes on with no
\* context: it answers without sources and records the turn
C23_GenerationFailureRecordsNothing ==
    [][\A question \in Queries, conversation_id \in ConvIds \cup Uuids,
          embedOk \in BOOLEAN, llmOk \in BOOLEAN :
          (/\ op' = "chat"
           /\ ChatOn(question, conversation_id, embedOk, llmOk)) =>
              /\ ret' = "dict"
              /\ GenerationFails(llmOk) =>
                    /\ ErrorResponse(reply', conversation_id)
                    /\ UNCHANGED conversations
              /\ (~GenerationFails(llmOk) /\ ~embedOk) =>
                    /\ ~reply'.error
                    /\ reply'.sources = <<>>
                    /\ LastN(conversations'[conversation_id], 2)
                          = <<Turn("user", question),
                              Turn("assistant", reply'.answer)>>]_vars

\* a chat whose language-model call failed, on a conversation that holds turns
C23_Witness ==
    /\ op = "chat" /\ reply.error
    /\ chat_service = "llm"
    /\ get_conversation_history(reply.conversation_id) # <<>>

\* the user and assistant turns in what the chat generates its answer from: the
\* messages after the system message for the language model, the question alone
\* for the local service (_create_simple_response(question, context_chunks))
InputTurns(question, conversation_id) ==
    IF chat_service = "llm"
    THEN Tail(BuildMessages(<<>>, question, conversation_id))
    ELSE <<Turn("user", question)>>

\* C24: a chat without a conversation_id returns an id that names no existing
\* conversation; a second chat with that id generates from the first question and
\* its answer, in that order, before the second question, whichever the variant
C24_SecondChatSeesFirstExchange ==
    /\ [][\A question \in Queries, embedOk \in BOOLEAN, llmOk \in BOOLEAN :
             (op' = "chat" /\ ChatNew(question, embedOk, llmOk)) =>
                 reply'.conversation_id \notin DOMAIN conversations]_vars
    /\ [](\A id \in Uuids \cap DOMAIN conversations, question2 \in Queries :
             (chat_service # "unconfigured" /\ Len(conversations[id]) = 2) =>
                 InputTurns(question2, id)
                     = conversations[id] \o <<Turn("user", question2)>>)

\* the positions of the first occurrence of each label among the chunks
FirstSeen(context_chunks, label) ==
    CHOOSE i \in 1..Len(context_chunks) :
        /\ SourceLabel(context_chunks[i]) = label
        /\ \A j \in 1..(i - 1) : SourceLabel(context_chunks[j]) # label

\* sources holds one label for each (filename, chunk_index) among the chunks, in
\* the order the pairs are first seen
SourcesOf(sources, context_chunks) ==
    /\ Len(sources) = Cardinality({<<context_chunks[i].filename,
                                     context_chunks[i].chunk_index>> :
                                        i \in 1..Len(context_chunks)})
    /\ Len(sources) <= Len(context_chunks)
    /\ {sources[i] : i \in 1..Len(sources)}
          = {context_chunks[i].filename \o " (chunk "
                \o ToString(context_chunks[i].chunk_index + 1) \o ")" :
                    i \in 1..Len(context_chunks)}
    /\ \A i, j \in 1..Len(sources) :
          i < j => FirstSeen(context_chunks, sources[i])
                      < FirstSeen(context_chunks, sources[j])

\* C25: the sources of a chat response hold exactly one label for each distinct
\* (filename, chunk_index) among the retrieved chunks, in order of first
\* occurrence, formatted from filename and chunk_index + 1, and no more labels
\* than chunks
C25_SourcesAreDistinctLabels ==
    [][\A question \in Queries, conversation_id \in ConvIds \cup Uuids,
          embedOk \in BOOLEAN, llmOk \in BOOLEAN :
          (/\ op' = "chat"
           /\ ~reply'.error
           /\ ChatOn(question, conversation_id, embedOk, llmOk)) =>
              \E context_chunks \in similarity_search(question, DefaultK, embedOk) :
                  SourcesOf(reply'.sources, context_chunks)]_vars

\* a chat answered from three chunks, two of them with the same label
C25_Witness ==
    /\ op = "chat" /\ ~reply.error
    /\ reply.sources = <<"a.txt (chunk 2)", "a.txt (chunk 1)">>

\* C26: clear_conversation(id) returns true exactly when a history for id existed;
\* afterwards the history of id is empty and id names no conversation (a second
\* call returns false); every other history is unchanged
C26_ClearRemovesOneConversation ==
    [][\A conversation_id \in ConvIds \cup Uuids :
          (op' = "clear_conversation" /\ ClearConversation(conversation_id)) =>
              /\ (ret' = "True") <=> (conversation_id \in DOMAIN conversations)
              /\ ret' \in {"True", "False"}
              /\ get_conversation_history(conversation_id)' = <<>>
              /\ DOMAIN conversations' = DOMAIN conversations \ {conversation_id}
              /\ \A other \in DOMAIN conversations' :
                    conversations'[other] = conversations[other]]_vars

\* a conversation was cleared and another one is still held
C26_Witness ==
    /\ op = "clear_conversation" /\ ret = "True"
    /\ DOMAIN conversations # {}

\* C28: the messages sent to the language model are the system message, then the
\* last 6 stored turns of the conversation at most, in their order and with their
\* roles, then the question as the last user message; nothing else
C28_MessagesHoldLastSixTurns ==
    chat_service = "llm" =>
        \A question \in Queries, conversation_id \in ConvIds \cup Uuids :
            LET history == get_conversation_history(conversation_id)
                messages == BuildMessages(<<>>, question, conversation_id)
                n == Len(messages) - 2
            IN /\ n = Min(Len(history), RecentTurns)
               /\ messages[1].role = "system"
               /\ messages[n + 2] = Turn("user", question)
               /\ \A i \in 1..n : messages[1 + i] = history[Len(history) - n + i]

\* the language model answered on a conversation that held more than 6 turns
C28_Witness ==
    /\ chat_service = "llm"
    /\ op = "chat" /\ ~reply.error
    /\ Len(get_conversation_history(reply.conversation_id)) > RecentTurns + 2

---------------------------------------------------------------------------
(* Provider selection *)

\* C29: at construction the provider is local whenever the local model loads,
\* otherwise remote exactly when credentials are present and the probe succeeds,
\* otherwise none with the default dimension; no later operation changes it
C29_ProviderSelectedOnce ==
    /\ [][\A localLoads \in BOOLEAN, haveCredentials \in BOOLEAN, probeOk \in BOOLEAN :
             (op' = "init" /\ Restart(localLoads, haveCredentials, probeOk)) =>
                 /\ localLoads => embedding_type' = "local"
                 /\ ~localLoads =>
                       ((embedding_type' = "azure") <=> (haveCredentials /\ probeOk))
                 /\ (~localLoads /\ ~(haveCredentials /\ probeOk)) =>
                       (embedding_type' = "none" /\ dimension' = DefaultDimension)]_vars
    /\ [][op' \notin {"init", "crash"} =>
             (embedding_type' = embedding_type /\ dimension' = dimension)]_vars

\* a store that holds chunks was constructed again and fell back to the remote
\* provider
C29_Witness ==
    /\ op = "init"
    /\ embedding_type = "azure"
    /\ metadata # <<>>

---------------------------------------------------------------------------
(* The request handlers: exclusion and agreement *)

\* remove_document has deleted records and the index is not rebuilt: it holds
\* more vectors than the list holds records
HalfRemoved == ntotal(index) > Len(metadata)

\* C27: writers of the store exclude everyone else: while a delete is in flight
\* no handler starts, the only step is the rest of that delete; and no search or
\* statistics request runs on the state in which records are deleted and the
\* index is not rebuilt
C27_NoRequestSeesHalfRemoved ==
    /\ [][task.at # "idle" =>
             /\ task'.at = "idle"
             /\ task'.handler = "delete_document"
             /\ op' = "remove_document"]_vars
    /\ [][op' \in {"similarity_search", "get_stats"} => ~HalfRemoved]_vars

\* C30: after the delete endpoint answers success for a document_id, also when
\* every write so far succeeded, the store holds no chunk of the document, in
\* memory or in its files, as many vectors as records, and the registry has no
\* entry for it
C30_DeletedEverywhere ==
    (/\ task.handler = "delete_document" /\ task.at = "idle" /\ task.status = "200"
     /\ saveFaults = 0) =>
        /\ task.document_id \notin DOMAIN registry
        /\ IndicesToRemove(metadata, task.document_id) = {}
        /\ IndicesToRemove(metadata_file.data, task.document_id) = {}
        /\ ntotal(index) = Len(metadata)

---------------------------------------------------------------------------
(* Upload failures, read-only calls, isolated conversations *)

\* C31: when the upload endpoint fails after the document was processed, the
\* registry has no entry for its document_id and the store holds none of its
\* chunks, in memory or in its files
C31_FailedUploadLeavesNothing ==
    [][\A c \in AddCalls, embedOk \in BOOLEAN, saveFault \in SaveFaults :
          (/\ task'.handler = "upload_document" /\ task'.status = "500"
           /\ c.chunks # <<>>
           /\ UploadDocument(c, embedOk, saveFault)) =>
              /\ c.document_id \notin DOMAIN registry'
              /\ IndicesToRemove(metadata', c.document_id) = {}
              /\ IndicesToRemove(metadata_file'.data, c.document_id) = {}]_vars

\* the fields of a stored chunk record
RecordFields == {"document_id", "filename", "chunk_index", "text", "vector_id"}

\* C32: similarity_search and get_stats leave the index, the metadata list and
\* both files as they were, and the stored records never carry the
\* similarity_score and rank of a returned copy
C32_ReadsChangeNothing ==
    /\ [][(SimilaritySearch \/ GetStats) =>
             UNCHANGED <<index, metadata, index_file, metadata_file>>]_vars
    /\ [](\A i \in 1..Len(metadata) : DOMAIN metadata[i] = RecordFields)

\* a search answered with records of a store that holds chunks
C32_Witness ==
    /\ op = "similarity_search"
    /\ metadata # <<>>
    /\ \E query \in Queries : similarity_search(query, DefaultK, TRUE) # {<<>>}

\* C33: a chat with one conversation id never changes the history of another id,
\* a failed chat adds no conversation, and every stored history is non-empty
C33_ConversationsAreIsolated ==
    /\ [][\A question \in Queries, conversation_id \in ConvIds \cup Uuids,
             embedOk \in BOOLEAN, llmOk \in BOOLEAN :
             (op' = "chat" /\ ChatOn(question, conversation_id, embedOk, llmOk)) =>
                 /\ \A other \in DOMAIN conversations \ {conversation_id} :
                       /\ other \in DOMAIN conversations'
                       /\ conversations'[other] = conversations[other]
                 /\ DOMAIN conversations' \subseteq DOMAIN conversations \cup {conversation_id}
                 /\ reply'.error => DOMAIN conversations' = DOMAIN conversations]_vars
    /\ [](\A id \in DOMAIN conversations : conversations[id] # <<>>)

\* a chat failed on a new id while another conversation is held
C33_Witness ==
    /\ op = "chat" /\ reply.error
    /\ reply.conversation_id \notin DOMAIN conversations
    /\ DOMAIN conversations # {}

---------------------------------------------------------------------------
(* The service singletons *)

\* C34: however the requests interleave, at most one DocumentProcessor, one
\* VectorStore and one chat service are constructed, the chat service wraps the
\* vector store held, and every handler works on the instances held
C34_OneInstanceOfEach ==
    /\ \A i \in 1..Len(Globals) : services[Globals[i]] <= 1
    /\ services.chat_service > 0 => services.wraps = services.vector_store
    /\ \A r \in Requests :
          requests[r].pc \in {"handler", "done"} =>
              requests[r].got = <<services.document_processor, services.vector_store,
                                  services.chat_service, services.wraps>>

\* two requests were answered, the second one after the first had built the
\* services, and a third one failed in get_services
C34_Witness ==
    /\ services = OneOfEach
    /\ \E r1, r2, r3 \in Requests :
          /\ r1 # r2
          /\ requests[r1].pc = "done" /\ requests[r2].pc = "done"
          /\ requests[r3].pc = "failed"

=============================================================================
